---- MODULE Spec2Model ----
(***************************************************************************)
(* Model of the ESLint rule no-unused-classes                              *)
(* (src/rules/no-unused-classes/no-unused-classes.ts).                     *)
(*                                                                         *)
(* One lint pass of one source file is: create(context), then the host     *)
(* fires ImportDeclaration / MemberExpression callbacks in document order, *)
(* then "Program:exit".  Strings are TLA+ strings (character sequences),   *)
(* a JavaScript Set or Map is a duplicate-free sequence in insertion       *)
(* order, and an optional value (undefined / null) is a sequence of        *)
(* length zero or one.                                                     *)
(***************************************************************************)
EXTENDS Integers, Sequences, FiniteSets, TLC

VARIABLES
  filename,   \* context.getFilename() of the pass in progress
  options,    \* context.options
  settings,   \* context.settings
  files,      \* the Map `files` of the create() closure
  phase,      \* "collecting", "done" (Program:exit returned) or "aborted" (a callback threw)
  reports,    \* descriptors handed to context.report in this pass, in order
  history,    \* the traversal events fired so far in this pass, in order
  passes,     \* number of create() invocations so far
  earlier,    \* zero or one remembered finished pass: its file, events and reports
  suspended,  \* SpecFiles: the create() closures of other files that are not running now
  unusedInput,   \* SpecPretty: the argument unusedClassNames of the formatting functions
  prettyOutput   \* SpecPretty: None, or the result of getPrettyUnusedClassNames(unusedInput)

passVars == <<filename, options, settings, files, phase, reports, history, passes, earlier,
              suspended>>
prettyVars == <<unusedInput, prettyOutput>>
vars == <<passVars, prettyVars>>

----------------------------------------------------------------------------
(* Bounds *)

MaxEvents == 3      \* traversal events per pass in Spec
MaxRunEvents == 2   \* traversal events per pass in SpecRuns
MaxPasses == 3      \* create() invocations in SpecRuns
MaxLen == 5         \* length of the unused list in SpecPretty

----------------------------------------------------------------------------
(* Generic helpers: optional values, strings, insertion-ordered sets *)

None == <<>>
Some(v) == <<v>>
IsSome(o) == Len(o) > 0
Get(o) == o[1]

Range(s) == {s[i] : i \in 1..Len(s)}

StartsWith(s, pre) ==
  /\ Len(s) >= Len(pre)
  /\ SubSeq(s, 1, Len(pre)) = pre

EndsWith(s, suf) ==
  /\ Len(s) >= Len(suf)
  /\ SubSeq(s, Len(s) - Len(suf) + 1, Len(s)) = suf

UpperChars == "ABCDEFGHIJKLMNOPQRSTUVWXYZ"
LowerChars == "abcdefghijklmnopqrstuvwxyz"

LowerOf ==
  [c \in {SubSeq(UpperChars, i, i) : i \in 1..Len(UpperChars)} |->
     LET i == CHOOSE j \in 1..Len(UpperChars) : SubSeq(UpperChars, j, j) = c
     IN SubSeq(LowerChars, i, i)]

LowerChar(c) == IF c \in DOMAIN LowerOf THEN LowerOf[c] ELSE c

RECURSIVE ToLowerCase(_)
ToLowerCase(s) ==
  IF Len(s) = 0 THEN ""
  ELSE LowerChar(SubSeq(s, 1, 1)) \o ToLowerCase(SubSeq(s, 2, Len(s)))

\* variant: an array with push instead of a Set
SetAddPush(set, v) == Append(set, v)

\* Set.prototype.add on an insertion-ordered set
SetAdd(set, v) == IF v \in Range(set) THEN set ELSE Append(set, v)

\* Set.prototype.has
SetHas(set, v) == v \in Range(set)

\* forEach(value => target.add(value)) over a list or set
RECURSIVE AddAll(_, _)
AddAll(target, values) ==
  IF Len(values) = 0 THEN target
  ELSE AddAll(SetAdd(target, Head(values)), Tail(values))

\* Map.prototype.has / get / set on an insertion-ordered list of [key, value] entries
MapHas(map, k) == \E i \in 1..Len(map) : map[i].key = k

MapGet(map, k) ==
  IF MapHas(map, k)
  THEN Some(map[CHOOSE i \in 1..Len(map) : map[i].key = k].value)
  ELSE None

MapSet(map, k, v) ==
  IF MapHas(map, k)
  THEN [i \in 1..Len(map) |-> IF map[i].key = k THEN [key |-> k, value |-> v] ELSE map[i]]
  ELSE Append(map, [key |-> k, value |-> v])

----------------------------------------------------------------------------
(* Path helpers (POSIX semantics of path.dirname and path.resolve) *)

Cwd == "/cwd"       \* process.cwd()

\* index of the last "/" of p, 0 if none
LastSlash(p) ==
  LET idx == {i \in 1..Len(p) : SubSeq(p, i, i) = "/"}
  IN IF idx = {} THEN 0 ELSE CHOOSE i \in idx : \A j \in idx : j <= i

\* path.dirname for a path without trailing slash
Dirname(p) ==
  LET k == LastSlash(p)
  IN IF k = 0 THEN "."
     ELSE IF k = 1 THEN "/"
     ELSE SubSeq(p, 1, k - 1)

\* the segments of p between "/" characters
RECURSIVE Split(_, _, _)
Split(p, cur, acc) ==
  IF Len(p) = 0 THEN Append(acc, cur)
  ELSE IF SubSeq(p, 1, 1) = "/" THEN Split(SubSeq(p, 2, Len(p)), "", Append(acc, cur))
  ELSE Split(SubSeq(p, 2, Len(p)), cur \o SubSeq(p, 1, 1), acc)

\* drop "" and ".", let ".." remove the segment before it
RECURSIVE NormalizeSegments(_, _)
NormalizeSegments(segs, acc) ==
  IF Len(segs) = 0 THEN acc
  ELSE LET s == Head(segs)
       IN IF s = "" \/ s = "." THEN NormalizeSegments(Tail(segs), acc)
          ELSE IF s = ".."
               THEN NormalizeSegments(Tail(segs),
                      IF Len(acc) = 0 THEN acc ELSE SubSeq(acc, 1, Len(acc) - 1))
          ELSE NormalizeSegments(Tail(segs), Append(acc, s))

RECURSIVE JoinSegments(_)
JoinSegments(segs) ==
  IF Len(segs) = 0 THEN ""
  ELSE "/" \o Head(segs) \o JoinSegments(Tail(segs))

NormalizeAbsolute(p) ==
  LET segs == NormalizeSegments(Split(p, "", <<>>), <<>>)
  IN IF Len(segs) = 0 THEN "/" ELSE JoinSegments(segs)

\* path.resolve(from, to)
PathResolve(from, to) ==
  IF StartsWith(to, "/") THEN NormalizeAbsolute(to)
  ELSE IF StartsWith(from, "/") THEN NormalizeAbsolute(from \o "/" \o to)
  ELSE NormalizeAbsolute(Cwd \o "/" \o from \o "/" \o to)

----------------------------------------------------------------------------
(* The environment: the disk and the stylesheet parser *)

\* A stylesheet's text is represented by what css-tree makes of it: either
\* a parse failure, or the names of its ClassSelector nodes in walk order.
Css(selectors) == [ok |-> TRUE, selectors |-> selectors]
Malformed == [ok |-> FALSE, selectors |-> <<>>]

DiskPaths ==
  { "/src/a.module.css", "/src/b.module.scss", "/src/five.module.css",
    "/src/empty.module.css", "/src/bad.module.css", "/src/plain.css",
    "/base/lib/t.module.css", "/src/ui/a.module.css" }

Disk(p) ==
  CASE p = "/src/a.module.css"      -> Css(<<"a", "b", "c", "a">>)
    [] p = "/src/b.module.scss"     -> Css(<<"c", "d">>)
    [] p = "/src/five.module.css"   -> Css(<<"a", "b", "c", "d", "e">>)
    [] p = "/src/empty.module.css"  -> Css(<<>>)
    [] p = "/src/bad.module.css"    -> Malformed
    [] p = "/src/plain.css"         -> Css(<<"p">>)
    [] p = "/base/lib/t.module.css" -> Css(<<"t", "a">>)
    [] p = "/src/ui/a.module.css"   -> Css(<<"x", "y">>)

----------------------------------------------------------------------------
(* The rule's helper functions *)

\* /.+\.module\.(scss|css)$/i ; no specifier of the model holds a line terminator
isCssFile(importFilePath) ==
  \E suffix \in {".module.scss", ".module.css"} :
    /\ EndsWith(ToLowerCase(importFilePath), suffix)
    /\ Len(importFilePath) > Len(suffix)

\* basePath is an optional string; the parameter default is ""
resolvePhysicalCssFilePath(sourceFilePath, importFilePath, basePathOpt) ==
  LET basePath == IF IsSome(basePathOpt) THEN Get(basePathOpt) ELSE ""
  IN IF StartsWith(importFilePath, ".")
     THEN PathResolve(Dirname(sourceFilePath), importFilePath)
     ELSE PathResolve(basePath, importFilePath)

fileExists(physicalFilePath) == physicalFilePath \in DiskPaths

\* variant: the parse error is caught and an empty tree is used
parseCssFileAstThrowsNever(physicalCssFilePath) == FALSE

\* TRUE iff cssTree.parse throws on the file's contents
parseCssFileAstThrows(physicalCssFilePath) == ~Disk(physicalCssFilePath).ok

parseCssFileAst(physicalCssFilePath) == Disk(physicalCssFilePath).selectors

getCssFileClassNames(cssAst) == AddAll(<<>>, cssAst)

PluginKey == "@jespers/css-modules"

getBasePathSetting(s) ==
  IF /\ PluginKey \in DOMAIN s
     /\ "basePath" \in DOMAIN s[PluginKey]
     /\ s[PluginKey]["basePath"] # ""
  THEN Some(s[PluginKey]["basePath"])
  ELSE None

getMarkAsUsedOption(opts) ==
  IF Len(opts) >= 1 /\ "markAsUsed" \in DOMAIN opts[1]
  THEN AddAll(<<>>, opts[1]["markAsUsed"])
  ELSE <<>>

Quote(className) == "'" \o className \o "'"

\* Array.prototype.map(quote).join(", ")
RECURSIVE QuoteJoin(_)
QuoteJoin(names) ==
  IF Len(names) = 0 THEN ""
  ELSE IF Len(names) = 1 THEN Quote(names[1])
  ELSE Quote(names[1]) \o ", " \o QuoteJoin(Tail(names))

Slice3(s) == SubSeq(s, 1, IF Len(s) < 3 THEN Len(s) ELSE 3)

Max0(n) == IF n > 0 THEN n ELSE 0

\* variant: the length test is < 3 instead of <= 3
getPrettyUnusedClassNamesStrict(unusedClassNames) ==
  LET base == QuoteJoin(Slice3(unusedClassNames))
  IN IF Len(unusedClassNames) < 3 THEN base
     ELSE base \o "... (+" \o ToString(Max0(Len(unusedClassNames) - 3)) \o " more)"

getPrettyUnusedClassNames(unusedClassNames) ==
  LET base == QuoteJoin(Slice3(unusedClassNames))
  IN IF Len(unusedClassNames) <= 3 THEN base
     ELSE base \o "... (+" \o ToString(Max0(Len(unusedClassNames) - 3)) \o " more)"

\* variant: the fix payload is cut like the summary
getFixPayloadClassNamesSliced(unusedClassNames) == QuoteJoin(Slice3(unusedClassNames))

getFixPayloadClassNames(unusedClassNames) == QuoteJoin(unusedClassNames)

----------------------------------------------------------------------------
(* The callbacks returned by create(context) *)

\* An ImportDeclaration node: its position in the traversal and node.source.value
ImportNode(id, source) == [type |-> "ImportDeclaration", id |-> id, source |-> source]

\* A MemberExpression node: its position and what ASTUtils.getPropertyName
\* returns for it (None for null)
MemberNode(id, propertyName) ==
  [type |-> "MemberExpression", id |-> id, propertyName |-> propertyName]

\* variant: the classNames.size > 0 test is missing
ImportDeclarationEffectNoSizeTest(map, sourceFilePath, ctxSettings, node) ==
  LET importFilePath == node.source
      same == [threw |-> FALSE, files |-> map]
  IN IF ~isCssFile(importFilePath) THEN same
     ELSE
       LET basePath == getBasePathSetting(ctxSettings)
           cssFilePath == resolvePhysicalCssFilePath(sourceFilePath, importFilePath, basePath)
       IN IF ~fileExists(cssFilePath) THEN same
          ELSE IF parseCssFileAstThrows(cssFilePath) THEN [threw |-> TRUE, files |-> map]
          ELSE
            LET classNames == getCssFileClassNames(parseCssFileAst(cssFilePath))
                file == MapGet(map, sourceFilePath)
                meta == IF IsSome(file) /\ IsSome(Get(file).meta)
                        THEN Get(file).meta
                        ELSE Some([importNode |-> node, cssFilePath |-> cssFilePath])
                availableClassNames ==
                  IF IsSome(file) THEN Get(file).availableClassNames ELSE <<>>
                map1 == IF ~MapHas(map, sourceFilePath)
                        THEN MapSet(map, sourceFilePath,
                                    [availableClassNames |-> availableClassNames,
                                     usedClassNames |-> <<>>,
                                     meta |-> meta])
                        ELSE map
                record == Get(MapGet(map1, sourceFilePath))
            IN [threw |-> FALSE,
                files |-> MapSet(map1, sourceFilePath,
                            [record EXCEPT !.availableClassNames =
                               AddAll(availableClassNames, classNames)])]

\* variant: the `if (!files.has(sourceFilePath))` guard is missing, so every
\* qualifying import stores a record with a new, empty usedClassNames
ImportDeclarationEffectAlwaysSet(map, sourceFilePath, ctxSettings, node) ==
  LET importFilePath == node.source
      same == [threw |-> FALSE, files |-> map]
  IN IF ~isCssFile(importFilePath) THEN same
     ELSE
       LET basePath == getBasePathSetting(ctxSettings)
           cssFilePath == resolvePhysicalCssFilePath(sourceFilePath, importFilePath, basePath)
       IN IF ~fileExists(cssFilePath) THEN same
          ELSE IF parseCssFileAstThrows(cssFilePath) THEN [threw |-> TRUE, files |-> map]
          ELSE
            LET classNames == getCssFileClassNames(parseCssFileAst(cssFilePath))
            IN IF ~(Len(classNames) > 0) THEN same
               ELSE
                 LET file == MapGet(map, sourceFilePath)
                     meta == IF IsSome(file) /\ IsSome(Get(file).meta)
                             THEN Get(file).meta
                             ELSE Some([importNode |-> node, cssFilePath |-> cssFilePath])
                     availableClassNames ==
                       IF IsSome(file) THEN Get(file).availableClassNames ELSE <<>>
                 IN [threw |-> FALSE,
                     files |-> MapSet(map, sourceFilePath,
                                 [availableClassNames |-> AddAll(availableClassNames, classNames),
                                  usedClassNames |-> <<>>,
                                  meta |-> meta])]

\* The effect of the ImportDeclaration callback on the Map `files`;
\* threw is TRUE iff parseCssFileAst threw out of the callback.
\* The Set availableClassNames is shared by reference with the record stored
\* under sourceFilePath, so the adds of the final forEach show in that record.
ImportDeclarationEffect(map, sourceFilePath, ctxSettings, node) ==
  LET importFilePath == node.source
      same == [threw |-> FALSE, files |-> map]
  IN IF ~isCssFile(importFilePath) THEN same
     ELSE
       LET basePath == getBasePathSetting(ctxSettings)
           cssFilePath == resolvePhysicalCssFilePath(sourceFilePath, importFilePath, basePath)
       IN IF ~fileExists(cssFilePath) THEN same
          ELSE IF parseCssFileAstThrows(cssFilePath) THEN [threw |-> TRUE, files |-> map]
          ELSE
            LET classNames == getCssFileClassNames(parseCssFileAst(cssFilePath))
            IN IF ~(Len(classNames) > 0) THEN same
               ELSE
                 LET file == MapGet(map, sourceFilePath)
                     meta == IF IsSome(file) /\ IsSome(Get(file).meta)
                             THEN Get(file).meta
                             ELSE Some([importNode |-> node, cssFilePath |-> cssFilePath])
                     availableClassNames ==
                       IF IsSome(file) THEN Get(file).availableClassNames ELSE <<>>
                     map1 == IF ~MapHas(map, sourceFilePath)
                             THEN MapSet(map, sourceFilePath,
                                         [availableClassNames |-> availableClassNames,
                                          usedClassNames |-> <<>>,
                                          meta |-> meta])
                             ELSE map
                     record == Get(MapGet(map1, sourceFilePath))
                 IN [threw |-> FALSE,
                     files |-> MapSet(map1, sourceFilePath,
                                 [record EXCEPT !.availableClassNames =
                                    AddAll(availableClassNames, classNames)])]

\* variant: usedClassNames is always a new Set, so the add is lost when the
\* record already exists
MemberExpressionEffectDetached(map, sourceFilePath, node) ==
  LET propertyName == node.propertyName
  IN IF ~(IsSome(propertyName) /\ Get(propertyName) # "") THEN map
     ELSE IF ~MapHas(map, sourceFilePath)
          THEN MapSet(map, sourceFilePath,
                      [availableClassNames |-> <<>>,
                       usedClassNames |-> <<Get(propertyName)>>,
                       meta |-> None])
          ELSE map

\* The effect of the MemberExpression callback on the Map `files`
MemberExpressionEffect(map, sourceFilePath, node) ==
  LET propertyName == node.propertyName
  IN IF ~(IsSome(propertyName) /\ Get(propertyName) # "") THEN map
     ELSE
       LET file == MapGet(map, sourceFilePath)
           usedClassNames == IF IsSome(file) THEN Get(file).usedClassNames ELSE <<>>
           map1 == IF ~MapHas(map, sourceFilePath)
                   THEN MapSet(map, sourceFilePath,
                               [availableClassNames |-> <<>>,
                                usedClassNames |-> usedClassNames,
                                meta |-> None])
                   ELSE map
           record == Get(MapGet(map1, sourceFilePath))
       IN MapSet(map1, sourceFilePath,
                 [record EXCEPT !.usedClassNames = SetAdd(usedClassNames, Get(propertyName))])

\* [...availableClassNames.values()].filter(not used and not marked as used)
RECURSIVE FilterUnused(_, _, _)
FilterUnused(availableClassNames, usedClassNames, markAsUsedClassNames) ==
  IF Len(availableClassNames) = 0 THEN <<>>
  ELSE LET className == Head(availableClassNames)
           rest == FilterUnused(Tail(availableClassNames), usedClassNames, markAsUsedClassNames)
       IN IF ~SetHas(usedClassNames, className) /\ ~SetHas(markAsUsedClassNames, className)
          THEN <<className>> \o rest
          ELSE rest

DirectiveText(fixPayloadClassNames) ==
  "/* eslint @jespers/css-modules/no-unused-classes: [2, { markAsUsed: ["
    \o fixPayloadClassNames \o "] }] */\n"

\* The descriptor passed to context.report
Report(importNode, cssFilePath, unusedClassNames) ==
  LET prettyClassNames == getPrettyUnusedClassNames(unusedClassNames)
      fixPayloadClassNames == getFixPayloadClassNames(unusedClassNames)
  IN [node |-> importNode,
      messageId |-> "unusedCssClasses",
      data |-> [classNames |-> prettyClassNames, cssFilePath |-> cssFilePath],
      suggest |-> << [messageId |-> "markAsUsed",
                      data |-> [classNames |-> fixPayloadClassNames],
                      fix |-> [insertTextBeforeRange |-> importNode.id,
                               text |-> DirectiveText(fixPayloadClassNames)]] >>]

\* variant: the markAsUsed half of the filter is missing
UnusedOfIgnoringMarked(record, markAsUsedClassNames) ==
  FilterUnused(record.availableClassNames, record.usedClassNames, <<>>)

\* unusedClassNames of one record, as Program:exit computes it
UnusedOf(record, markAsUsedClassNames) ==
  FilterUnused(record.availableClassNames, record.usedClassNames, markAsUsedClassNames)

\* variant: one report per unused class name
ReportsOfRecordPerClass(record, markAsUsedClassNames) ==
  LET unusedClassNames == UnusedOf(record, markAsUsedClassNames)
  IN IF Len(unusedClassNames) > 0 /\ IsSome(record.meta)
     THEN [i \in 1..Len(unusedClassNames) |->
             Report(Get(record.meta).importNode, Get(record.meta).cssFilePath,
                    <<unusedClassNames[i]>>)]
     ELSE <<>>

\* the reports of the body of files.forEach for one record
ReportsOfRecord(record, markAsUsedClassNames) ==
  LET unusedClassNames == UnusedOf(record, markAsUsedClassNames)
  IN IF Len(unusedClassNames) > 0
     THEN IF IsSome(record.meta) /\ Get(record.meta).cssFilePath # ""
          THEN << Report(Get(record.meta).importNode, Get(record.meta).cssFilePath,
                         unusedClassNames) >>
          ELSE <<>>
     ELSE <<>>

MarkAsUsedAtExit(map, ctxOptions) ==
  IF Len(map) > 0 THEN getMarkAsUsedOption(ctxOptions) ELSE <<>>

RECURSIVE ForEachReports(_, _)
ForEachReports(map, markAsUsedClassNames) ==
  IF Len(map) = 0 THEN <<>>
  ELSE ReportsOfRecord(Head(map).value, markAsUsedClassNames)
         \o ForEachReports(Tail(map), markAsUsedClassNames)

\* everything "Program:exit" reports
ProgramExitReports(map, ctxOptions) ==
  ForEachReports(map, MarkAsUsedAtExit(map, ctxOptions))

----------------------------------------------------------------------------
(* Inputs *)

MainFile == "/src/App.tsx"
SourceFiles == {MainFile, "/src/ui/Button.tsx"}

ImportSources ==
  { "./a.module.css", "./b.module.scss", "./five.module.css", "./empty.module.css",
    "./bad.module.css", "./plain.css", "./missing.module.css", "lib/t.module.css" }

PropertyNames == { Some("a"), Some(""), None }

OptionValues ==
  { <<>>,
    <<[markAsUsed |-> <<"b", "zz", "b">>]>> }

NoSettings == [k \in {} |-> <<>>]
PluginSettings(basePath) == [k \in {PluginKey} |-> [basePath |-> basePath]]

SettingValues == { NoSettings, PluginSettings("/base") }

\* inputs of SpecRuns
RunImportSources == { "./a.module.css", "./b.module.scss" }
RunPropertyNames == { Some("a") }
RunOptionValues == { <<>>, <<[markAsUsed |-> <<"b">>]>> }

\* inputs of SpecPretty
ClassNameUniverse == { "a", "b", "c", "zz", "e1", "f" }

----------------------------------------------------------------------------
(* Actions *)

\* the state right after create(context) for file f: a fresh, empty Map
Created(f) ==
  /\ filename = f
  /\ files = <<>>
  /\ phase = "collecting"
  /\ reports = <<>>
  /\ history = <<>>

Init ==
  /\ Created(MainFile)
  /\ options \in OptionValues
  /\ settings \in SettingValues
  /\ passes = 1
  /\ earlier = None
  /\ suspended = <<>>
  /\ unusedInput = <<>>
  /\ prettyOutput = None

ImportDeclaration(node) ==
  /\ phase = "collecting"
  /\ LET effect == ImportDeclarationEffect(files, filename, settings, node)
     IN /\ files' = effect.files
        /\ phase' = IF effect.threw THEN "aborted" ELSE phase
  /\ history' = Append(history, node)
  /\ UNCHANGED <<filename, options, settings, reports, passes, earlier, suspended, prettyVars>>

MemberExpression(node) ==
  /\ phase = "collecting"
  /\ files' = MemberExpressionEffect(files, filename, node)
  /\ history' = Append(history, node)
  /\ UNCHANGED <<filename, options, settings, phase, reports, passes, earlier, suspended, prettyVars>>

\* variant: Program:exit empties the Map once it has reported
ProgramExitClearing ==
  /\ phase = "collecting"
  /\ reports' = reports \o ProgramExitReports(files, options)
  /\ phase' = "done"
  /\ files' = <<>>
  /\ UNCHANGED <<filename, options, settings, history, passes, earlier, suspended, prettyVars>>

ProgramExit ==
  /\ phase = "collecting"
  /\ reports' = reports \o ProgramExitReports(files, options)
  /\ phase' = "done"
  /\ UNCHANGED <<filename, options, settings, files, history, passes, earlier, suspended, prettyVars>>

\* the finished pass, as a later pass may remember it
FinishedPass ==
  [filename |-> filename, history |-> history, phase |-> phase, reports |-> reports,
   files |-> files]

\* variant: the Map lives outside create() and is never emptied
createSharedMap(f) ==
  /\ phase \in {"done", "aborted"}
  /\ passes < MaxPasses
  /\ passes' = passes + 1
  /\ filename' = f
  /\ files' = files
  /\ phase' = "collecting"
  /\ reports' = <<>>
  /\ history' = <<>>
  /\ earlier' \in IF IsSome(earlier) THEN {earlier} ELSE {None, Some(FinishedPass)}
  /\ UNCHANGED <<options, settings, suspended, prettyVars>>

\* the host lints the next file: create(context) builds a new closure with a
\* new Map; a pass that ended (or aborted) is over
create(f) ==
  /\ phase \in {"done", "aborted"}
  /\ passes < MaxPasses
  /\ passes' = passes + 1
  /\ filename' = f
  /\ files' = <<>>
  /\ phase' = "collecting"
  /\ reports' = <<>>
  /\ history' = <<>>
  /\ earlier' \in IF IsSome(earlier) THEN {earlier} ELSE {None, Some(FinishedPass)}
  /\ UNCHANGED <<options, settings, suspended, prettyVars>>

Next ==
  \/ \E s \in ImportSources :
       Len(history) < MaxEvents /\ ImportDeclaration(ImportNode(Len(history) + 1, s))
  \/ \E p \in PropertyNames :
       Len(history) < MaxEvents /\ MemberExpression(MemberNode(Len(history) + 1, p))
  \/ ProgramExit

Spec == Init /\ [][Next]_vars

\* Several passes in a row, over either source file
InitRuns ==
  /\ \E f \in SourceFiles : Created(f)
  /\ options \in RunOptionValues
  /\ settings = NoSettings
  /\ passes = 1
  /\ earlier = None
  /\ suspended = <<>>
  /\ unusedInput = <<>>
  /\ prettyOutput = None

NextRuns ==
  \/ \E s \in RunImportSources :
       Len(history) < MaxRunEvents /\ ImportDeclaration(ImportNode(Len(history) + 1, s))
  \/ \E p \in RunPropertyNames :
       Len(history) < MaxRunEvents /\ MemberExpression(MemberNode(Len(history) + 1, p))
  \/ ProgramExit
  \/ \E f \in SourceFiles : create(f)

SpecRuns == InitRuns /\ [][NextRuns]_vars

\* Two files linted side by side: each has its own create() closure, and the
\* host may leave one pass and go on with the other between any two callbacks
Closure(f, map, ph, reps, events) ==
  [filename |-> f, files |-> map, phase |-> ph, reports |-> reps, history |-> events]

\* variant: the Map is one module-level object that all closures use
switchPassSharedMap ==
  /\ suspended # <<>>
  /\ filename' = suspended[1].filename
  /\ files' = files
  /\ phase' = suspended[1].phase
  /\ reports' = suspended[1].reports
  /\ history' = suspended[1].history
  /\ suspended' = <<Closure(filename, files, phase, reports, history)>>
  /\ UNCHANGED <<options, settings, passes, earlier, prettyVars>>

\* the host goes on with the other pass: its callbacks see the Map, the
\* filename and the reports of their own closure and context
switchPass ==
  /\ suspended # <<>>
  /\ filename' = suspended[1].filename
  /\ files' = suspended[1].files
  /\ phase' = suspended[1].phase
  /\ reports' = suspended[1].reports
  /\ history' = suspended[1].history
  /\ suspended' = <<Closure(filename, files, phase, reports, history)>>
  /\ UNCHANGED <<options, settings, passes, earlier, prettyVars>>

InitFiles ==
  /\ \E f, g \in SourceFiles :
       /\ f # g
       /\ Created(f)
       /\ suspended = <<Closure(g, <<>>, "collecting", <<>>, <<>>)>>
  /\ options \in RunOptionValues
  /\ settings = NoSettings
  /\ passes = 2
  /\ earlier = None
  /\ unusedInput = <<>>
  /\ prettyOutput = None

NextFiles ==
  \/ \E s \in RunImportSources :
       Len(history) < MaxRunEvents /\ ImportDeclaration(ImportNode(Len(history) + 1, s))
  \/ \E p \in RunPropertyNames :
       Len(history) < MaxRunEvents /\ MemberExpression(MemberNode(Len(history) + 1, p))
  \/ ProgramExit
  \/ switchPass

SpecFiles == InitFiles /\ [][NextFiles]_vars

\* The formatting functions alone, on every duplicate-free list of bounded length
DistinctLists(S, n) ==
  UNION { {u \in [1..k -> S] : \A i, j \in 1..k : i # j => u[i] # u[j]} : k \in 0..n }

InitPretty ==
  /\ Created(MainFile)
  /\ options = <<>>
  /\ settings = NoSettings
  /\ passes = 1
  /\ earlier = None
  /\ suspended = <<>>
  /\ unusedInput \in DistinctLists(ClassNameUniverse, MaxLen)
  /\ prettyOutput = None

Format ==
  /\ prettyOutput = None
  /\ prettyOutput' = Some(getPrettyUnusedClassNames(unusedInput))
  /\ UNCHANGED <<passVars, unusedInput>>

NextPretty == Format

SpecPretty == InitPretty /\ [][NextPretty]_vars

----------------------------------------------------------------------------
(* What the traversal so far contains, read off the event history alone *)

IsImport(e) == e.type = "ImportDeclaration"
IsMember(e) == e.type = "MemberExpression"

\* resolvePhysicalCssFilePath and isCssFile, tabulated over the inputs
ResolvedPathOf ==
  [f \in SourceFiles |-> [st \in SettingValues |-> [src \in ImportSources |->
     resolvePhysicalCssFilePath(f, src, getBasePathSetting(st))]]]

IsCssFileOf == [src \in ImportSources |-> isCssFile(src)]

\* the import's specifier has the stylesheet-module suffix
Recognized(e) == IsCssFileOf[e.source]

\* the physical path an import event resolves to in the current pass
ResolvedPath(e) == ResolvedPathOf[filename][settings][e.source]

\* the class names an event's stylesheet declares ({} for any other event)
DeclaredBy(e) ==
  IF /\ IsImport(e)
     /\ Recognized(e)
     /\ ResolvedPath(e) \in DiskPaths
     /\ Disk(ResolvedPath(e)).ok
  THEN Range(Disk(ResolvedPath(e)).selectors)
  ELSE {}

\* a stylesheet-module import of an existing stylesheet with at least one class
Qualifying(e) == DeclaredBy(e) # {}

QualifyingIndexes == {i \in 1..Len(history) : Qualifying(history[i])}

Declared == UNION {DeclaredBy(history[i]) : i \in 1..Len(history)}

\* the names some MemberExpression of the traversal resolved to
Accessed ==
  {Get(history[i].propertyName) :
     i \in {j \in 1..Len(history) :
              IsMember(history[j]) /\ IsSome(history[j].propertyName)}}

\* the configured markAsUsed names
MarkedSet ==
  IF Len(options) >= 1 /\ "markAsUsed" \in DOMAIN options[1]
  THEN Range(options[1]["markAsUsed"])
  ELSE {}

\* the last event fired
LastEvent == history[Len(history)]

\* the position of the first ' of text at or after position k, 0 if none
RECURSIVE QuoteFrom(_, _)
QuoteFrom(text, k) ==
  IF k > Len(text) THEN 0
  ELSE IF SubSeq(text, k, k) = "'" THEN k
  ELSE QuoteFrom(text, k + 1)

\* Reads a text of the form 'n1', 'n2', ... back into the listed names and
\* the text that follows the list.
RECURSIVE ParseList(_, _)
ParseList(text, acc) ==
  IF StartsWith(text, "'") /\ QuoteFrom(text, 2) > 0
  THEN LET close == QuoteFrom(text, 2)
           name == SubSeq(text, 2, close - 1)
           after == SubSeq(text, close + 1, Len(text))
       IN IF StartsWith(after, ", '")
          THEN ParseList(SubSeq(after, 3, Len(after)), Append(acc, name))
          ELSE [names |-> Append(acc, name), rest |-> after]
  ELSE [names |-> acc, rest |-> text]

\* the names a report's suggested fix lists
FixNames(report) == ParseList(report.suggest[1].data.classNames, <<>>).names

\* the names a report's summary shows
SummaryNames(report) == ParseList(report.data.classNames, <<>>).names

DirectivePrefix == "/* eslint @jespers/css-modules/no-unused-classes: [2, { markAsUsed: ["

\* the names the inserted directive comment lists
DirectiveNames(report) ==
  LET text == report.suggest[1].fix.text
  IN IF StartsWith(text, DirectivePrefix)
     THEN ParseList(SubSeq(text, Len(DirectivePrefix) + 1, Len(text)), <<>>).names
     ELSE <<>>

HasRecord == MapHas(files, filename)
TheRecord == Get(MapGet(files, filename))

----------------------------------------------------------------------------
(* Claims *)

\* C1 (detection completeness): after Program:exit, every class that a
\* stylesheet-module import of the traversal declares, that no property access
\* of the traversal names and that markAsUsed does not list, is in the fix
\* payload of an emitted diagnostic.
C1_DetectionComplete ==
  phase = "done" =>
    \A c \in Declared :
      (c \notin Accessed /\ c \notin MarkedSet) =>
        \E i \in 1..Len(reports) : c \in Range(FixNames(reports[i]))

\* C2 (subtraction correctness): after Program:exit, for every record the
\* names of unusedClassNames are exactly the available names that are neither
\* used nor marked as used, and an emitted diagnostic lists exactly them.
C2_Subtraction ==
  phase = "done" =>
    \A i \in 1..Len(files) :
      LET record == files[i].value
          unused == UnusedOf(record, MarkAsUsedAtExit(files, options))
          expected == (Range(record.availableClassNames)
                         \ Range(record.usedClassNames)) \ MarkedSet
      IN /\ Range(unused) = expected
         /\ \A r \in 1..Len(reports) : Range(FixNames(reports[r])) = expected

\* C2 witness: a finished pass whose record has a used available name, a
\* marked available name and a reported unused name.
C2_Witness ==
  /\ phase = "done"
  /\ HasRecord
  /\ Range(TheRecord.availableClassNames) \cap Range(TheRecord.usedClassNames) # {}
  /\ Range(TheRecord.availableClassNames) \cap MarkedSet # {}
  /\ Len(reports) = 1
  /\ FixNames(reports[1]) # <<>>

\* C3 (anchor fixation): once a qualifying import has been processed, the
\* record's anchor is set and is the first qualifying import of the traversal
\* together with its resolved path.
C3_AnchorIsFirstQualifying ==
  QualifyingIndexes # {} =>
    LET first == CHOOSE i \in QualifyingIndexes : \A j \in QualifyingIndexes : i <= j
    IN /\ HasRecord
       /\ IsSome(TheRecord.meta)
       /\ Get(TheRecord.meta).importNode = history[first]
       /\ Get(TheRecord.meta).cssFilePath = ResolvedPath(history[first])

\* C4 (one diagnostic per file): a finished pass has emitted at most one
\* diagnostic; exactly one, at the anchor import and listing all unused names
\* of the imported stylesheets, when the unused set is non-empty and the
\* record has an anchor; none when nothing is available or nothing is unused.
C4_OneDiagnostic ==
  phase = "done" =>
    LET unusedSet == (Declared \ Accessed) \ MarkedSet
    IN /\ Len(reports) <= 1
       /\ (HasRecord /\ IsSome(TheRecord.meta) /\ unusedSet # {}) =>
            /\ Len(reports) = 1
            /\ reports[1].node = Get(TheRecord.meta).importNode
            /\ reports[1].data.cssFilePath = Get(TheRecord.meta).cssFilePath
            /\ Range(FixNames(reports[1])) = unusedSet
       /\ (Declared = {} \/ unusedSet = {}) => reports = <<>>
       /\ (~HasRecord \/ TheRecord.availableClassNames = <<>>) => reports = <<>>

\* C4 witness: two different stylesheets imported, one diagnostic for both.
C4_Witness ==
  /\ phase = "done"
  /\ \E i, j \in QualifyingIndexes :
       /\ i < j
       /\ ResolvedPath(history[i]) # ResolvedPath(history[j])
       /\ DeclaredBy(history[j]) \ DeclaredBy(history[i]) # {}
  /\ Len(reports) = 1
  /\ Len(FixNames(reports[1])) >= 4

\* C5 (truncation law): the summary shows the first min(3, |u|) names of u,
\* quoted and joined by ", ", followed by nothing when |u| <= 3 and by
\* "... (+K more)" with K = |u| - 3 when |u| > 3.
C5_TruncationLaw ==
  IsSome(prettyOutput) =>
    LET u == unusedInput
        n == Len(u)
        shown == ParseList(Get(prettyOutput), <<>>)
    IN /\ shown.names = SubSeq(u, 1, IF n < 3 THEN n ELSE 3)
       /\ n <= 3 => shown.rest = ""
       /\ n > 3 => shown.rest = "... (+" \o ToString(n - 3) \o " more)"

\* C5 witness: a list of five names formatted with the suffix for two more.
C5_Witness ==
  /\ IsSome(prettyOutput)
  /\ Len(unusedInput) = 5
  /\ ParseList(Get(prettyOutput), <<>>).rest = "... (+2 more)"

\* C6 (fix completeness): every emitted diagnostic's fix payload, in the
\* markAsUsed message data and in the inserted directive comment, lists every
\* unused name once, in order, whatever the summary shows.
C6_FixComplete ==
  \A r \in 1..Len(reports) :
    /\ HasRecord
    /\ LET unused == UnusedOf(TheRecord, MarkAsUsedAtExit(files, options))
           fix == reports[r].suggest[1]
       IN /\ Cardinality(Range(unused)) = Len(unused)
          /\ FixNames(reports[r]) = unused
          /\ ParseList(fix.data.classNames, <<>>).rest = ""
          /\ DirectiveNames(reports[r]) = unused
          /\ fix.fix.text = DirectivePrefix \o fix.data.classNames \o "] }] */\n"

\* C6 witness: a diagnostic whose summary is truncated and whose fix lists
\* more than three names.
C6_Witness ==
  /\ Len(reports) = 1
  /\ Len(FixNames(reports[1])) > 3
  /\ Len(SummaryNames(reports[1])) = 3
  /\ Len(DirectiveNames(reports[1])) > 3

\* C7 as stated (name-only usage): every property access of the traversal
\* that resolved to a name n has put n into usedClassNames, and no accessed
\* name is in a diagnostic's unused list.
C7_EveryResolvedNameUsed ==
  /\ \A i \in 1..Len(history) :
       (IsMember(history[i]) /\ IsSome(history[i].propertyName)) =>
         /\ HasRecord
         /\ SetHas(TheRecord.usedClassNames, Get(history[i].propertyName))
  /\ \A r \in 1..Len(reports) :
       /\ Range(FixNames(reports[r])) \cap Accessed = {}
       /\ Range(SummaryNames(reports[r])) \cap Accessed = {}

\* C7 amended (name-only usage): every property access of the traversal that
\* resolved to a non-empty name n has put n into usedClassNames, before or
\* after any import, and no accessed name is in a diagnostic's unused list.
C7_NameOnlyUsage ==
  /\ \A i \in 1..Len(history) :
       (/\ IsMember(history[i])
        /\ IsSome(history[i].propertyName)
        /\ Get(history[i].propertyName) # "") =>
         /\ HasRecord
         /\ SetHas(TheRecord.usedClassNames, Get(history[i].propertyName))
  /\ \A r \in 1..Len(reports) :
       /\ Range(FixNames(reports[r])) \cap Accessed = {}
       /\ Range(SummaryNames(reports[r])) \cap Accessed = {}

\* C7 witness: a name accessed before the import that first declares it, and
\* a diagnostic that lists other names of that stylesheet but not this one.
C7_Witness ==
  /\ phase = "done"
  /\ Len(reports) = 1
  /\ \E i, j \in 1..Len(history) :
       /\ i < j
       /\ IsMember(history[i])
       /\ IsSome(history[i].propertyName)
       /\ Get(history[i].propertyName) \in DeclaredBy(history[j])
       /\ \A k \in 1..i : Get(history[i].propertyName) \notin DeclaredBy(history[k])
       /\ DeclaredBy(history[j]) \cap Range(FixNames(reports[1])) # {}
       /\ Get(history[i].propertyName) \notin Range(FixNames(reports[1]))

\* an import that is not recognized, resolves to no file or declares no class,
\* or a property access whose name is not resolved
NonContributing(e) ==
  \/ /\ IsImport(e)
     /\ \/ ~Recognized(e)
        \/ ResolvedPath(e) \notin DiskPaths
        \/ Disk(ResolvedPath(e)).ok /\ Disk(ResolvedPath(e)).selectors = <<>>
  \/ /\ IsMember(e)
     /\ ~IsSome(e.propertyName)

\* C8 (non-contributing events): a non-contributing event leaves the Map as
\* it was (no record created, no record changed), and a finished pass of only
\* such events has no record and no diagnostic.
C8_NonContributingFrame ==
  /\ [][ (Len(history') = Len(history) + 1 /\ NonContributing(history'[Len(history')]))
           => files' = files ]_vars
  /\ [] ( (phase = "done" /\ \A i \in 1..Len(history) : NonContributing(history[i]))
            => (files = <<>> /\ reports = <<>>) )

\* C8 witness: a record with an anchor exists and the event just handled is
\* an import of a stylesheet without classes or of a missing file.
C8_Witness ==
  /\ HasRecord
  /\ IsSome(TheRecord.meta)
  /\ Len(history) >= 2
  /\ IsImport(LastEvent)
  /\ Recognized(LastEvent)
  /\ NonContributing(LastEvent)

\* C9 (determinism): two finished passes over the same file with the same
\* events, under the same configuration and disk, emit the same diagnostics,
\* whatever passes ran before or between them.
C9_Deterministic ==
  (/\ IsSome(earlier)
   /\ phase = "done"
   /\ Get(earlier).phase = "done"
   /\ Get(earlier).filename = filename
   /\ Get(earlier).history = history) => Get(earlier).reports = reports

\* C9 witness: the second of two equal passes has emitted a diagnostic.
C9_Witness ==
  /\ IsSome(earlier)
  /\ phase = "done"
  /\ Get(earlier).phase = "done"
  /\ Get(earlier).filename = filename
  /\ Get(earlier).history = history
  /\ Len(history) >= 2
  /\ Len(reports) = 1

\* C10 (anchorless records): after Program:exit, a record lacks an anchor only
\* if the traversal had a resolvable property access and no qualifying import;
\* every record with available class names has an anchor.
C10_AnchorlessOnlyWithoutImport ==
  phase = "done" =>
    \A i \in 1..Len(files) :
      LET record == files[i].value
      IN /\ ~IsSome(record.meta) => (QualifyingIndexes = {} /\ Accessed # {})
         /\ record.availableClassNames # <<>> => IsSome(record.meta)

\* the same event up to its position in the traversal
SameEvent(e1, e2) ==
  /\ e1.type = e2.type
  /\ IsImport(e1) => e1.source = e2.source
  /\ IsMember(e1) => e1.propertyName = e2.propertyName

\* h1 and h2 hold the same events, possibly in another order
IsPermutation(h1, h2) ==
  /\ Len(h1) = Len(h2)
  /\ \E f \in [1..Len(h1) -> 1..Len(h1)] :
       /\ \A i, j \in 1..Len(h1) : i # j => f[i] # f[j]
       /\ \A i \in 1..Len(h1) : SameEvent(h1[i], h2[f[i]])

\* the available and the used names of the record of file f in map, as sets
AvailableSet(map, f) ==
  IF MapHas(map, f) THEN Range(Get(MapGet(map, f)).availableClassNames) ELSE {}
UsedSet(map, f) ==
  IF MapHas(map, f) THEN Range(Get(MapGet(map, f)).usedClassNames) ELSE {}

\* C11 (order independence): two finished passes over the same file whose
\* traversals hold the same events in any order end with the same set of
\* available names and the same set of used names.
C11_OrderIndependent ==
  (/\ IsSome(earlier)
   /\ phase = "done"
   /\ Get(earlier).phase = "done"
   /\ Get(earlier).filename = filename
   /\ IsPermutation(Get(earlier).history, history)) =>
     /\ MapHas(Get(earlier).files, filename) <=> MapHas(files, filename)
     /\ AvailableSet(Get(earlier).files, filename) = AvailableSet(files, filename)
     /\ UsedSet(Get(earlier).files, filename) = UsedSet(files, filename)

\* C11 witness: two finished passes with the same two events in opposite
\* order, an import and a property access, and so different intermediate states.
C11_Witness ==
  /\ IsSome(earlier)
  /\ phase = "done"
  /\ Get(earlier).phase = "done"
  /\ Get(earlier).filename = filename
  /\ Len(history) = 2
  /\ IsPermutation(Get(earlier).history, history)
  /\ ~SameEvent(Get(earlier).history[1], history[1])
  /\ IsMember(history[1])
  /\ IsImport(history[2])
  /\ AvailableSet(files, filename) # {}
  /\ UsedSet(files, filename) # {}

\* C12 (append-only state): a step of the collecting phase removes no record,
\* removes no name from a record's availableClassNames or usedClassNames, and
\* leaves an anchor that is set as it is.
C12_AppendOnly ==
  [][ phase = "collecting" =>
        \A i \in 1..Len(files) :
          LET k == files[i].key
              old == files[i].value
          IN /\ MapHas(files', k)
             /\ Range(old.availableClassNames)
                  \subseteq Range(Get(MapGet(files', k)).availableClassNames)
             /\ Range(old.usedClassNames)
                  \subseteq Range(Get(MapGet(files', k)).usedClassNames)
             /\ IsSome(old.meta) => Get(MapGet(files', k)).meta = old.meta ]_vars

\* C12 witness: a second qualifying import has just added names to a record
\* that has used names and keeps the anchor of the first import.
C12_Witness ==
  /\ HasRecord
  /\ Len(history) >= 3
  /\ Qualifying(LastEvent)
  /\ TheRecord.usedClassNames # <<>>
  /\ IsSome(TheRecord.meta)
  /\ Get(TheRecord.meta).importNode # LastEvent
  /\ DeclaredBy(LastEvent) \ DeclaredBy(Get(TheRecord.meta).importNode) # {}

\* C13 as stated (record existence): a record exists for the file exactly when
\* the traversal has visited a qualifying import or a property access whose
\* name was resolved, and the Map holds no record of another path.
C13_RecordIffResolved ==
  /\ HasRecord <=> (QualifyingIndexes # {} \/ Accessed # {})
  /\ \A i \in 1..Len(files) : files[i].key = filename
  /\ Len(files) <= 1

\* C13 amended (record existence): a record exists for the file exactly when
\* the traversal has visited a qualifying import or a property access whose
\* name was resolved to a non-empty string, and the Map holds no record of
\* another path, so at most one record.
C13_RecordExistence ==
  /\ HasRecord <=> (QualifyingIndexes # {} \/ Accessed \ {""} # {})
  /\ \A i \in 1..Len(files) : files[i].key = filename
  /\ Len(files) <= 1

\* C13 witness: the record was created by the third event, after an import
\* that does not qualify and a property access that resolved to "".
C13_Witness ==
  /\ Len(history) = 3
  /\ HasRecord
  /\ \E i, j \in 1..2 :
       /\ IsImport(history[i]) /\ Recognized(history[i]) /\ ~Qualifying(history[i])
       /\ IsMember(history[j]) /\ history[j].propertyName = Some("")

\* C14 (callback frames): an ImportDeclaration step leaves usedClassNames of
\* every existing record as it is; a MemberExpression step leaves
\* availableClassNames and the anchor of every existing record as they are.
C14_CallbackFrames ==
  [][ Len(history') = Len(history) + 1 =>
        \A i \in 1..Len(files) :
          LET k == files[i].key
              old == files[i].value
              event == history'[Len(history')]
          IN /\ MapHas(files', k)
             /\ IsImport(event) =>
                  Get(MapGet(files', k)).usedClassNames = old.usedClassNames
             /\ IsMember(event) =>
                  /\ Get(MapGet(files', k)).availableClassNames = old.availableClassNames
                  /\ Get(MapGet(files', k)).meta = old.meta ]_vars

\* C14 witness: a qualifying import has just added available names to a
\* record that already had used names, and they are still there.
C14_Witness ==
  /\ HasRecord
  /\ Len(history) >= 2
  /\ Qualifying(LastEvent)
  /\ "a" \in DeclaredBy(LastEvent)
  /\ TheRecord.usedClassNames = <<"a">>
  /\ TheRecord.availableClassNames # <<>>

\* the class selectors of all qualifying imports of events i.. of the
\* traversal, in traversal order and, within a stylesheet, in walk order
RECURSIVE DeclaredSequence(_)
DeclaredSequence(i) ==
  IF i > Len(history) THEN <<>>
  ELSE (IF Qualifying(history[i]) THEN Disk(ResolvedPath(history[i])).selectors ELSE <<>>)
         \o DeclaredSequence(i + 1)

\* the elements of seq at positions k.. that do not occur at an earlier position
RECURSIVE FirstOccurrences(_, _)
FirstOccurrences(seq, k) ==
  IF k > Len(seq) THEN <<>>
  ELSE (IF \A j \in 1..(k - 1) : seq[j] # seq[k] THEN <<seq[k]>> ELSE <<>>)
         \o FirstOccurrences(seq, k + 1)

\* the declared names in the order they were first added
FirstAdded == FirstOccurrences(DeclaredSequence(1), 1)

NotUsedNorMarked(n) == n \notin Accessed /\ n \notin MarkedSet

\* C15 (listing order): availableClassNames holds the declared names in the
\* order they were first added over the traversal, each once, and a
\* diagnostic's fix payload, directive and summary list the unused ones in
\* that order.
C15_ListingOrder ==
  /\ HasRecord => TheRecord.availableClassNames = FirstAdded
  /\ \A r \in 1..Len(reports) :
       LET expected == SelectSeq(FirstAdded, NotUsedNorMarked)
       IN /\ FixNames(reports[r]) = expected
          /\ DirectiveNames(reports[r]) = expected
          /\ SummaryNames(reports[r]) =
               SubSeq(expected, 1, IF Len(expected) < 3 THEN Len(expected) ELSE 3)

\* C15 witness: a diagnostic lists, once, a name that two different imported
\* stylesheets declare, and names of both stylesheets.
C15_Witness ==
  /\ phase = "done"
  /\ Len(reports) = 1
  /\ \E i, j \in QualifyingIndexes :
       /\ i < j
       /\ ResolvedPath(history[i]) # ResolvedPath(history[j])
       /\ (DeclaredBy(history[i]) \cap DeclaredBy(history[j]))
            \cap Range(FixNames(reports[1])) # {}
       /\ (DeclaredBy(history[j]) \ DeclaredBy(history[i]))
            \cap Range(FixNames(reports[1])) # {}

\* an import of a recognized, existing stylesheet that fails to parse
ParseFails(e) ==
  /\ IsImport(e)
  /\ Recognized(e)
  /\ ResolvedPath(e) \in DiskPaths
  /\ ~Disk(ResolvedPath(e)).ok

\* C16 (parse failure is fatal): an ImportDeclaration step whose stylesheet
\* fails to parse aborts the pass and leaves the Map and the diagnostics as
\* they were; an aborted pass takes no further step, so it has no diagnostic;
\* a pass is aborted only by such an import.
C16_ParseFailureFatal ==
  /\ [][ (Len(history') = Len(history) + 1 /\ ParseFails(history'[Len(history')]))
           => (phase' = "aborted" /\ files' = files /\ reports' = reports) ]_vars
  /\ [][ phase # "aborted" ]_vars
  /\ [] ( phase = "aborted" => (reports = <<>> /\ ParseFails(LastEvent)) )
  /\ [] ( phase = "done" => \A i \in 1..Len(history) : ~ParseFails(history[i]) )

\* C16 witness: a pass aborted by its third event, with the record that the
\* events before it built.
C16_Witness ==
  /\ phase = "aborted"
  /\ Len(history) = 3
  /\ HasRecord
  /\ TheRecord.availableClassNames # <<>>
  /\ TheRecord.usedClassNames # <<>>
  /\ reports = <<>>

\* C17 (linear pipeline): the phase only moves from collecting to done or to
\* aborted; diagnostics appear only in the Program:exit step; that step
\* changes no record and no event follows it.
C17_LinearPipeline ==
  [][ /\ phase' # phase => (phase = "collecting" /\ phase' \in {"done", "aborted"})
      /\ reports' # reports =>
           (phase = "collecting" /\ phase' = "done" /\ history' = history)
      /\ phase' = "done" => (files' = files /\ history' = history)
      /\ Len(history') > Len(history) => (phase = "collecting" /\ reports' = reports) ]_vars

\* C17 witness: a finished pass of three events that has emitted a diagnostic
\* and still has its record.
C17_Witness ==
  /\ phase = "done"
  /\ Len(history) = 3
  /\ Len(reports) = 1
  /\ HasRecord
  /\ IsSome(TheRecord.meta)

\* the Map that the events i.. of h build from map for file f
RECURSIVE ReplayFrom(_, _, _, _)
ReplayFrom(map, f, h, i) ==
  IF i > Len(h) THEN map
  ELSE ReplayFrom(IF IsImport(h[i])
                  THEN ImportDeclarationEffect(map, f, settings, h[i]).files
                  ELSE MemberExpressionEffect(map, f, h[i]),
                  f, h, i + 1)

\* the closure's Map and reports are those of its own events and the configuration
OwnEventsOnly(c) ==
  /\ \A i \in 1..Len(c.files) : c.files[i].key = c.filename
  /\ c.files = ReplayFrom(<<>>, c.filename, c.history, 1)
  /\ c.reports = IF c.phase = "done"
                 THEN ProgramExitReports(ReplayFrom(<<>>, c.filename, c.history, 1), options)
                 ELSE <<>>

\* C18 (cross-file isolation): with two files' passes interleaved in any way,
\* each pass's Map holds only its own file's record, built from its own events
\* alone, its diagnostics are those of its own events and the configuration,
\* and a callback of one pass changes nothing of the other pass.
C18_CrossFileIsolation ==
  /\ [] ( /\ OwnEventsOnly(Closure(filename, files, phase, reports, history))
          /\ \A i \in 1..Len(suspended) : OwnEventsOnly(suspended[i]) )
  /\ [][ filename' = filename => suspended' = suspended ]_vars

\* C18 witness: one pass has finished with a diagnostic while the pass of the
\* other file, begun before, waits in the middle of its traversal with a record.
C18_Witness ==
  /\ phase = "done"
  /\ Len(reports) = 1
  /\ Len(suspended) = 1
  /\ suspended[1].filename # filename
  /\ suspended[1].phase = "collecting"
  /\ Len(suspended[1].history) = 1
  /\ suspended[1].files # <<>>

----------------------------------------------------------------------------
\* the events that create or change a record
Contributing(e) ==
  \/ Qualifying(e)
  \/ IsMember(e) /\ IsSome(e.propertyName) /\ Get(e.propertyName) # ""

ContributingIndexes == {i \in 1..Len(history) : Contributing(history[i])}

\* C19 (anchor written only at record creation): a step gives a record an
\* anchor only if it is an ImportDeclaration step that creates the record;
\* when the first record-creating event of the traversal is a property access,
\* the record has no anchor, still holds every declared name, and Program:exit
\* emits nothing.
C19_AnchorOnlyAtCreation ==
  /\ [][ \A i \in 1..Len(files') :
           LET k == files'[i].key
           IN IsSome(files'[i].value.meta) =>
                \/ MapHas(files, k) /\ Get(MapGet(files, k)).meta = files'[i].value.meta
                \/ /\ ~MapHas(files, k)
                   /\ Len(history') = Len(history) + 1
                   /\ IsImport(history'[Len(history')])
                   /\ Get(files'[i].value.meta).importNode = history'[Len(history')] ]_vars
  /\ [] ( (/\ ContributingIndexes # {}
           /\ IsMember(history[CHOOSE i \in ContributingIndexes :
                                 \A j \in ContributingIndexes : i <= j])) =>
            /\ HasRecord
            /\ ~IsSome(TheRecord.meta)
            /\ Range(TheRecord.availableClassNames) = Declared
            /\ phase = "done" => reports = <<>> )

\* C19 witness: a finished pass that began with a property access and then
\* imported a stylesheet with unused names, and reported nothing.
C19_Witness ==
  /\ phase = "done"
  /\ Len(history) >= 2
  /\ IsMember(history[1])
  /\ HasRecord
  /\ ~IsSome(TheRecord.meta)
  /\ QualifyingIndexes # {}
  /\ UnusedOf(TheRecord, MarkAsUsedAtExit(files, options)) # <<>>
  /\ reports = <<>>

====
